---------------------------- MODULE Spec2Model ----------------------------
(***************************************************************************)
(* A model of src/main.py: a Streamlit dashboard script.  Every script run *)
(* (the first page view and each rerun after a widget interaction) calls   *)
(* the memoized load_data(), builds the sidebar widgets, filters the base  *)
(* table and derives the metrics and tables behind the charts.             *)
(*                                                                         *)
(* A data frame is a sequence of rows; a filtered frame is the sequence of *)
(* the retained row positions (the frame's index labels), so that a row    *)
(* keeps its identity through filtering, explode and nlargest.  Chart      *)
(* construction (plotly) and the correlation heat map are not modelled.    *)
(***************************************************************************)
EXTENDS Integers, Sequences, FiniteSets

VARIABLES
    csv,       \* the remote resource: the rows read_csv would return
    cache,     \* st.cache_data's store for load_data: {} or {df}
    fetches,   \* number of times read_csv(url) has been attempted
    status,    \* how the last script run ended
    hit,       \* whether the last load_data() call was answered by the cache
    df,        \* the module-level df of the last run
    criteria,  \* the widget values of the last run
    out        \* the metrics and tables of the last run

vars == <<csv, cache, fetches, status, hit, df, criteria, out>>

----------------------------------------------------------------------------
(* Bounds of the model *)

MaxRows == 2
MaxLong == 22
MaxElems == 3
MaxFetchFailures == 1

----------------------------------------------------------------------------
(* Cell values.  Numbers are naturals; NaN is the missing value of pandas  *)
(* (NaN / NaT); Garbage is a cell whose text is neither a number nor a     *)
(* date.                                                                   *)

NaN == -1
Garbage == -2

Top20 == 20
Top10 == 10

RECURSIVE SumSeq(_)
SumSeq(s) == IF s = <<>> THEN 0 ELSE Head(s) + SumSeq(Tail(s))

Range(s) == {s[i] : i \in 1..Len(s)}

----------------------------------------------------------------------------
(* load_data: type coercion *)

\* pd.to_numeric(col, errors='coerce'): what does not parse becomes NaN
to_numeric(x) == IF x >= 0 THEN x ELSE NaN

\* pd.to_datetime(col, errors='coerce') followed by .dt.year; a date cell is
\* modelled by its year
to_year(x) == IF x >= 0 THEN x ELSE NaN

----------------------------------------------------------------------------
(* load_data: parse_genres.  A genres cell is                              *)
(*   kind "list"  : text that literal_eval turns into a list of elems,     *)
(*   kind "value" : text of some other literal (a dict, a number, ...),    *)
(*   kind "text"  : text that is no literal, such as "not a list",         *)
(*   kind "nan"   : an absent cell (float NaN).                            *)
(* A list element is a dict (has_name: it has the key 'name'), an int, or  *)
(* a str (has_name: the text contains 'name').                             *)

\* "'name' in d" raises TypeError on an int; d.get raises AttributeError
\* on a str that passed the test
ElemRaises(d) == d.kind = "int" \/ (d.kind = "str" /\ d.has_name)

\* the list comprehension [d.get('name') for d in genres if 'name' in d]
RECURSIVE Comprehension(_)
Comprehension(genres) ==
    IF genres = <<>> THEN [raised |-> FALSE, names |-> <<>>]
    ELSE LET d == Head(genres) IN
         IF ElemRaises(d) THEN [raised |-> TRUE, names |-> <<>>]
         ELSE LET rest == Comprehension(Tail(genres)) IN
              IF rest.raised THEN rest
              ELSE IF d.has_name
                   THEN [raised |-> FALSE, names |-> <<d.name>> \o rest.names]
                   ELSE rest

parse_genres_strict(x) ==
    IF x.kind = "list" /\ \A i \in 1..Len(x.elems) :
                              x.elems[i].kind = "dict" /\ x.elems[i].has_name
    THEN [i \in 1..Len(x.elems) |-> x.elems[i].name]
    ELSE <<>>

parse_genres(x) ==
    IF x.kind # "list" THEN <<>>       \* literal_eval raised, or not a list
    ELSE LET r == Comprehension(x.elems) IN
         IF r.raised THEN <<>> ELSE r.names

Normalize(row) ==
    [year         |-> to_year(row.release_date),
     vote_count   |-> to_numeric(row.vote_count),
     vote_average |-> to_numeric(row.vote_average),
     revenue      |-> to_numeric(row.revenue),
     runtime      |-> to_numeric(row.runtime),
     genres_list  |-> parse_genres(row.genres)]

\* the body of load_data, given the rows read_csv returned
load_data(raw) == [i \in 1..Len(raw) |-> Normalize(raw[i])]

----------------------------------------------------------------------------
(* Sidebar widgets *)

Indices(n) == [i \in 1..n |-> i]

SetMin(S) == CHOOSE x \in S : \A y \in S : x <= y
SetMax(S) == CHOOSE x \in S : \A y \in S : x >= y

\* the non-NaN years of a frame: Series.min() and .max() skip NaN
Years(t) == {t[i].year : i \in 1..Len(t)} \ {NaN}

\* df['year'].min() / .max(): NaN for a column with no value at all
year_min(t) == IF Years(t) = {} THEN NaN ELSE SetMin(Years(t))
year_max(t) == IF Years(t) = {} THEN NaN ELSE SetMax(Years(t))

\* int(df['year'].min()) raises ValueError on NaN
SliderRaises(t) == year_min(t) = NaN

all_genres(t) == UNION {Range(t[i].genres_list) : i \in 1..Len(t)}

\* values the "Minimum Vote Count" slider (0..5000, default 100) can take
MinVotesChoices == {0, 100}

\* what the three widgets can return for a frame t
Criteria(t) ==
    {c \in [genres    : SUBSET all_genres(t),
            year_lo   : year_min(t)..year_max(t),
            year_hi   : year_min(t)..year_max(t),
            min_votes : MinVotesChoices] : c.year_lo <= c.year_hi}

----------------------------------------------------------------------------
(* Filtering *)

between_nan_passes(y, lo, hi) == y = NaN \/ (lo <= y /\ y <= hi)

\* Series.between(lo, hi), inclusive; a comparison with NaN is False
between(y, lo, hi) == y # NaN /\ lo <= y /\ y <= hi

\* Series >= scalar; a comparison with NaN is False
ge(v, m) == v # NaN /\ v >= m

Lower(g) == IF g = "Action" THEN "action"
            ELSE IF g = "Comedy" THEN "comedy" ELSE g

genre_match_nocase(x, genre_filter) ==
    \E g \in genre_filter : \E j \in 1..Len(x) : Lower(x[j]) = Lower(g)

\* any(g in x for g in genre_filter)
genre_match(x, genre_filter) ==
    \E g \in genre_filter : \E j \in 1..Len(x) : x[j] = g

filtered_df_always_genre(t, c) ==
    SelectSeq(Indices(Len(t)),
        LAMBDA i : /\ between(t[i].year, c.year_lo, c.year_hi)
                   /\ ge(t[i].vote_count, c.min_votes)
                   /\ genre_match(t[i].genres_list, c.genres))

\* lines 46-52
filtered_df(t, c) ==
    LET base == SelectSeq(Indices(Len(t)),
                    LAMBDA i : between(t[i].year, c.year_lo, c.year_hi)
                               /\ ge(t[i].vote_count, c.min_votes))
    IN  IF c.genres # {}
        THEN SelectSeq(base, LAMBDA i : genre_match(t[i].genres_list, c.genres))
        ELSE base

----------------------------------------------------------------------------
(* Aggregates over the filtered frame.  idx is the filtered frame: the     *)
(* strictly increasing sequence of retained row labels of t.               *)

Column(t, idx, col) == [k \in 1..Len(idx) |-> t[idx[k]][col]]

dropna(s) == SelectSeq(s, LAMBDA v : v # NaN)

sum_min_count(s) == IF dropna(s) = <<>> THEN NaN ELSE SumSeq(dropna(s))

\* Series.sum(): NaN is skipped, the sum of nothing is 0
sum(s) == SumSeq(dropna(s))

\* A mean is kept exact as the pair (sum, n) of its non-NaN values;
\* n = 0 is the NaN that the mean of nothing is.
NaNMean == [sum |-> 0, n |-> 0]

\* Series.mean(): NaN is skipped
mean(s) == [sum |-> SumSeq(dropna(s)), n |-> Len(dropna(s))]

IsNaNMean(m) == m.n = 0

\* a >= b for two non-NaN means
MeanGE(a, b) == a.sum * b.n >= b.sum * a.n

\* The order of nlargest(n, col) with keep='first': larger values first,
\* equal values by row position, NaN after every value.
Precedes(t, col, i, j) ==
    LET a == t[i][col]
        b == t[j][col]
    IN  IF a = NaN THEN b = NaN /\ i < j
        ELSE b = NaN \/ a > b \/ (a = b /\ i < j)

RECURSIVE TakeFirst(_, _, _, _)
TakeFirst(t, S, n, col) ==
    IF n = 0 \/ S = {} THEN <<>>
    ELSE LET b == CHOOSE i \in S : \A j \in S \ {i} : Precedes(t, col, i, j)
         IN  <<b>> \o TakeFirst(t, S \ {b}, n - 1, col)

PrecedesKeepLast(t, col, i, j) ==
    LET a == t[i][col]
        b == t[j][col]
    IN  IF a = NaN THEN b = NaN /\ i < j
        ELSE b = NaN \/ a > b \/ (a = b /\ i > j)

RECURSIVE TakeLast(_, _, _, _)
TakeLast(t, S, n, col) ==
    IF n = 0 \/ S = {} THEN <<>>
    ELSE LET b == CHOOSE i \in S : \A j \in S \ {i} : PrecedesKeepLast(t, col, i, j)
         IN  <<b>> \o TakeLast(t, S \ {b}, n - 1, col)

nlargest_keep_last(t, idx, n, col) == TakeLast(t, Range(idx), n, col)

\* DataFrame.nlargest(n, col): the labels of the first n rows in that order
nlargest(t, idx, n, col) == TakeFirst(t, Range(idx), n, col)

\* the key of the NaN row that explode() makes of an empty list
NoGenre == "<NaN>"

\* DataFrame.explode('genres_list'): one row per list element, one row
\* with a NaN key for an empty list; row is the label of the source row
RECURSIVE explode(_, _)
explode(t, idx) ==
    IF idx = <<>> THEN <<>>
    ELSE LET i == Head(idx)
             x == t[i].genres_list
         IN  (IF x = <<>> THEN <<[row |-> i, genres_list |-> NoGenre]>>
              ELSE [j \in 1..Len(x) |-> [row |-> i, genres_list |-> x[j]]])
             \o explode(t, Tail(idx))

\* .groupby('genres_list')['revenue'].mean().reset_index(): one row per
\* non-NaN key, with the mean revenue of the exploded rows of that key
GenreGroups(t, idx) ==
    LET ex   == explode(t, idx)
        keys == {ex[k].genres_list : k \in 1..Len(ex)} \ {NoGenre}
    IN  {[genres_list |-> g,
          revenue |-> mean([k \in 1..Len(SelectSeq(ex, LAMBDA e : e.genres_list = g))
                              |-> t[SelectSeq(ex, LAMBDA e : e.genres_list = g)[k].row].revenue])] :
            g \in keys}

\* descending by revenue, NaN last
SortedDesc(s) ==
    \A k \in 1..Len(s) - 1 :
        /\ IsNaNMean(s[k].revenue) => IsNaNMean(s[k + 1].revenue)
        /\ (~IsNaNMean(s[k].revenue) /\ ~IsNaNMean(s[k + 1].revenue))
              => MeanGE(s[k].revenue, s[k + 1].revenue)

\* .sort_values('revenue', ascending=False): the sort is not stable, so
\* rows of equal mean may come out in any order
revenue_by_genre(t, idx) ==
    LET G == GenreGroups(t, idx)
    IN  {s \in [1..Cardinality(G) -> G] :
            /\ \A a, b \in 1..Cardinality(G) : a # b => s[a] # s[b]
            /\ SortedDesc(s)}

RECURSIVE SortAsc(_)
SortAsc(S) == IF S = {} THEN <<>>
              ELSE <<SetMin(S)>> \o SortAsc(S \ {SetMin(S)})

\* the group keys of groupby('year'), ascending; NaN keys are dropped
YearKeys(t, idx) == SortAsc({t[idx[k]].year : k \in 1..Len(idx)} \ {NaN})

\* filtered_df.groupby('year').size().reset_index(name='count')
movies_per_year(t, idx) ==
    LET ys == YearKeys(t, idx)
    IN  [k \in 1..Len(ys) |->
            [year |-> ys[k],
             count |-> Len(SelectSeq(idx, LAMBDA i : t[i].year = ys[k]))]]

avg_rating_per_year_dropna(t, idx) ==
    LET ys == YearKeys(t, idx)
    IN  SelectSeq([k \in 1..Len(ys) |->
                     [year |-> ys[k],
                      vote_average |->
                         mean(Column(t, SelectSeq(idx, LAMBDA i : t[i].year = ys[k]),
                                     "vote_average"))]],
                  LAMBDA e : ~IsNaNMean(e.vote_average))

\* filtered_df.groupby('year')['vote_average'].mean().reset_index()
avg_rating_per_year(t, idx) ==
    LET ys == YearKeys(t, idx)
    IN  [k \in 1..Len(ys) |->
            [year |-> ys[k],
             vote_average |->
                mean(Column(t, SelectSeq(idx, LAMBDA i : t[i].year = ys[k]),
                            "vote_average"))]]

----------------------------------------------------------------------------
(* One script run *)

NoCriteria == [genres |-> {}, year_lo |-> NaN, year_hi |-> NaN, min_votes |-> NaN]

\* the outputs of a run that stopped before computing any
NoOutput ==
    [filtered_df         |-> <<>>,
     count               |-> NaN,
     avg_rating          |-> NaNMean,
     total_revenue       |-> NaN,
     avg_runtime         |-> NaNMean,
     top_revenue         |-> <<>>,
     revenue_by_genre    |-> <<>>,
     movies_per_year     |-> <<>>,
     avg_rating_per_year |-> <<>>,
     top_rated           |-> <<>>]

\* lines 46-108, for one of the orders sort_values may give revenue_by_genre
Dashboard(t, c, rbg) ==
    LET idx == filtered_df(t, c)
    IN  [filtered_df         |-> idx,
         count               |-> Len(idx),
         avg_rating          |-> mean(Column(t, idx, "vote_average")),
         total_revenue       |-> sum(Column(t, idx, "revenue")),
         avg_runtime         |-> mean(Column(t, idx, "runtime")),
         top_revenue         |-> nlargest(t, idx, Top20, "revenue"),
         revenue_by_genre    |-> rbg,
         movies_per_year     |-> movies_per_year(t, idx),
         avg_rating_per_year |-> avg_rating_per_year(t, idx),
         top_rated           |-> nlargest(t, idx, Top10, "vote_average")]

cache_never(c) == FALSE

\* @st.cache_data: a call finds the stored value of an earlier call
cache_hit(c) == c # {}

cache_after_error_stores(c) == {<<>>}

\* @st.cache_data keeps nothing of a call that raised
cache_after_error(c) == c

\* what load_data() returns to a run whose fetch, if any, succeeds
Loaded == IF cache_hit(cache) THEN CHOOSE d \in cache : TRUE
          ELSE load_data(csv)

Fetched == IF cache_hit(cache) THEN fetches ELSE fetches + 1

\* read_csv raises (network or resource unavailable): the exception leaves
\* load_data and ends the run at line 37
RunLoadError ==
    /\ ~cache_hit(cache)
    /\ fetches < MaxFetchFailures
    /\ fetches' = fetches + 1
    /\ cache' = cache_after_error(cache)
    /\ status' = "load_error"
    /\ hit' = FALSE
    /\ df' = <<>>
    /\ criteria' = NoCriteria
    /\ out' = NoOutput
    /\ UNCHANGED csv

\* the frame has no year at all: int(NaN) raises ValueError at line 43
RunSliderError ==
    /\ SliderRaises(Loaded)
    /\ fetches' = Fetched
    /\ cache' = {Loaded}
    /\ status' = "slider_error"
    /\ hit' = cache_hit(cache)
    /\ df' = Loaded
    /\ criteria' = NoCriteria
    /\ out' = NoOutput
    /\ UNCHANGED csv

\* a run that reaches the end of the script
RunDashboard ==
    /\ ~SliderRaises(Loaded)
    /\ \E c \in Criteria(Loaded) :
         \E rbg \in revenue_by_genre(Loaded, filtered_df(Loaded, c)) :
            /\ criteria' = c
            /\ out' = Dashboard(Loaded, c, rbg)
    /\ fetches' = Fetched
    /\ cache' = {Loaded}
    /\ status' = "done"
    /\ hit' = cache_hit(cache)
    /\ df' = Loaded
    /\ UNCHANGED csv

Next == RunLoadError \/ RunSliderError \/ RunDashboard

----------------------------------------------------------------------------
(* Inputs *)

Dict(name) == [kind |-> "dict", has_name |-> TRUE, name |-> name]
DictNoName == [kind |-> "dict", has_name |-> FALSE, name |-> ""]
IntElem    == [kind |-> "int", has_name |-> FALSE, name |-> ""]
StrElem(b) == [kind |-> "str", has_name |-> b, name |-> ""]

ListCell(elems) == [kind |-> "list", elems |-> elems]
ValueCell == [kind |-> "value", elems |-> <<>>]
TextCell  == [kind |-> "text", elems |-> <<>>]
NaNCell   == [kind |-> "nan", elems |-> <<>>]

RawRow(d, vc, va, rev, rt, g) ==
    [release_date |-> d, vote_count |-> vc, vote_average |-> va,
     revenue |-> rev, runtime |-> rt, genres |-> g]

\* rows of the small tables
SampleRows ==
    {RawRow(2000, 50, 7, 30, 90, ListCell(<<Dict("Action")>>)),
     RawRow(2001, 200, 8, 40, 120, ListCell(<<Dict("Comedy")>>)),
     RawRow(2001, 200, NaN, NaN, Garbage,
            ListCell(<<Dict("Action"), Dict("Comedy")>>)),
     RawRow(2000, 200, 6, 10, 100,
            ListCell(<<Dict("Action"), Dict("Action")>>)),
     RawRow(Garbage, 200, 9, 99, 80, ListCell(<<Dict("Comedy")>>)),
     RawRow(2001, Garbage, 5, 5, 70, TextCell),
     RawRow(2000, 200, 7, 40, 90,
            ListCell(<<Dict("action"), DictNoName>>))}

SeqsUpTo(S, n) == UNION {[1..k -> S] : k \in 0..n}

InitRun ==
    /\ cache = {}
    /\ fetches = 0
    /\ status = "start"
    /\ hit = FALSE
    /\ df = <<>>
    /\ criteria = NoCriteria
    /\ out = NoOutput

Init == csv \in SeqsUpTo(SampleRows, MaxRows) /\ InitRun

Spec == Init /\ [][Next]_vars

\* tables of one row, over every genres cell up to MaxElems elements
ParseNames == {"Action", "Comedy"}
Elems == {Dict(n) : n \in ParseNames}
            \cup {DictNoName, IntElem, StrElem(TRUE), StrElem(FALSE)}
GenreCells == {ListCell(e) : e \in SeqsUpTo(Elems, MaxElems)}
                 \cup {ValueCell, TextCell, NaNCell}

InitParse ==
    /\ csv \in SeqsUpTo({RawRow(2000, 200, 7, 10, 90, g) : g \in GenreCells}, 1)
    /\ InitRun

SpecParse == InitParse /\ [][Next]_vars

\* long tables: row i takes its revenue and vote_average from a repeating
\* motif, so that values tie and NaN occur on both sides of row 20
Motifs ==
    {<<<<3, 5>>, <<1, 5>>, <<2, 7>>>>,
     <<<<2, NaN>>, <<NaN, 6>>, <<2, 6>>, <<1, 8>>>>,
     <<<<4, 4>>>>,
     <<<<NaN, Garbage>>, <<5, 5>>>>}

LongRow(m, i) ==
    LET p == m[((i - 1) % Len(m)) + 1]
    IN  RawRow(IF i % 3 = 0 THEN 2000 ELSE 2001,
               IF i % 5 = 0 THEN 50 ELSE 200,
               p[2], p[1], 90, ListCell(<<>>))

InitLong ==
    /\ csv \in {[i \in 1..n |-> LongRow(m, i)] : n \in 0..MaxLong, m \in Motifs}
    /\ InitRun

SpecLong == InitLong /\ [][Next]_vars

----------------------------------------------------------------------------
(* Properties.  F is the set of row labels of the filtered frame of the    *)
(* last completed run.                                                     *)

Done == status = "done"
F == Range(out.filtered_df)

Min(a, b) == IF a <= b THEN a ELSE b

RECURSIVE ColumnSum(_, _)
ColumnSum(S, col) ==
    IF S = {} THEN 0
    ELSE LET i == CHOOSE i \in S : TRUE
         IN  df[i][col] + ColumnSum(S \ {i}, col)

\* the rows of S that have a value in column col
Valued(S, col) == {i \in S : df[i][col] # NaN}

\* m is the mean of column col over the rows of S, NaN when none has a value
IsMeanOf(m, S, col) ==
    IF Valued(S, col) = {} THEN m.n = 0
    ELSE /\ m.n > 0
         /\ m.sum * Cardinality(Valued(S, col)) = ColumnSum(Valued(S, col), col) * m.n

YearOK(i) ==
    /\ df[i].year # NaN
    /\ criteria.year_lo <= df[i].year
    /\ df[i].year <= criteria.year_hi

VotesOK(i) == df[i].vote_count # NaN /\ df[i].vote_count >= criteria.min_votes

GenreOK(i) ==
    criteria.genres # {} => Range(df[i].genres_list) \cap criteria.genres # {}

\* C1: a row is in the filtered frame iff its year is non-null and within
\* [year_lo, year_hi], its vote_count is non-null and >= min_votes, and, when
\* the genre set is non-empty, one of its genre names equals a name of the
\* set; the filtered frame lists each such row once, in table order.
C1_FilterIff ==
    Done =>
        /\ \A i \in 1..Len(df) : i \in F <=> (YearOK(i) /\ VotesOK(i) /\ GenreOK(i))
        /\ \A k \in 1..Len(out.filtered_df) - 1 :
              out.filtered_df[k] < out.filtered_df[k + 1]

\* a genre restriction keeps one row and alone rejects another, whose genre
\* differs from a selected name in case only
C1_Witness ==
    /\ Done
    /\ criteria.genres = {"Action"}
    /\ F # {}
    /\ \E j \in 1..Len(df) :
          j \notin F /\ YearOK(j) /\ VotesOK(j) /\ df[j].genres_list # <<>>
          /\ \A k \in 1..Len(df[j].genres_list) : Lower(df[j].genres_list[k]) = "action"

----------------------------------------------------------------------------
(* parse_genres, on the one-row tables of SpecParse *)

Cell == csv[1].genres
Parsed == df[1].genres_list

IsNamed(d) == d.kind = "dict" /\ d.has_name
AllDicts(x) == \A i \in 1..Len(x.elems) : x.elems[i].kind = "dict"
NamesOf(elems) == LET named == SelectSeq(elems, IsNamed)
                  IN  [i \in 1..Len(named) |-> named[i].name]

\* C2 as amended: parse_genres always yields a list; for a list of dicts it
\* is the names of the dicts that carry "name", in their order (all of them
\* when every dict carries one, none when no dict does: a dict without
\* "name" is skipped and does not empty the result); for text that is no
\* literal, a non-list value or an absent cell it is the empty list.
C2_ParseGenres ==
    (Done /\ Len(csv) = 1) =>
        /\ Parsed \in Seq(ParseNames)
        /\ (Cell.kind = "list" /\ AllDicts(Cell)) => Parsed = NamesOf(Cell.elems)
        /\ Cell.kind # "list" => Parsed = <<>>

\* a list in which a dict without "name" stands beside dicts with one
C2_Witness ==
    /\ Done /\ Len(csv) = 1
    /\ Cell.kind = "list" /\ AllDicts(Cell)
    /\ \E i \in 1..Len(Cell.elems) : ~Cell.elems[i].has_name
    /\ Len(Parsed) = 2

\* C2 as stated: a list with an element that lacks "name" gives the empty list
C2_Original ==
    (Done /\ Len(csv) = 1) =>
        /\ Parsed \in Seq(ParseNames)
        /\ (Cell.kind = "list" /\ \A i \in 1..Len(Cell.elems) : IsNamed(Cell.elems[i]))
              => Parsed = NamesOf(Cell.elems)
        /\ Cell.kind # "list" => Parsed = <<>>
        /\ (Cell.kind = "list" /\ \E i \in 1..Len(Cell.elems) :
                Cell.elems[i].kind = "dict" /\ ~Cell.elems[i].has_name)
              => Parsed = <<>>

----------------------------------------------------------------------------
(* Mean revenue by genre *)

\* the filtered rows whose genre list holds the name g
RowsOf(g) == {i \in F : g \in Range(df[i].genres_list)}

GenreKeys == {out.revenue_by_genre[k].genres_list :
                k \in 1..Len(out.revenue_by_genre)}

\* C3: the table has one row for each genre name that occurs in a filtered
\* row and no other; its mean is the mean revenue of the filtered rows that
\* list the name, each row counted once; the table is sorted by mean
\* revenue, descending.
C3_RevenueByGenre ==
    Done =>
        /\ GenreKeys = UNION {Range(df[i].genres_list) : i \in F}
        /\ Len(out.revenue_by_genre) = Cardinality(GenreKeys)
        /\ \A k \in 1..Len(out.revenue_by_genre) :
              IsMeanOf(out.revenue_by_genre[k].revenue,
                       RowsOf(out.revenue_by_genre[k].genres_list), "revenue")
        /\ SortedDesc(out.revenue_by_genre)

----------------------------------------------------------------------------
(* nlargest *)

\* row i ranks before row j by column col: a larger value first, equal
\* values in table order, a row without a value after every row with one
RanksBefore(col, i, j) ==
    \/ df[i][col] # NaN /\ df[j][col] = NaN
    \/ df[i][col] # NaN /\ df[j][col] # NaN /\ df[i][col] > df[j][col]
    \/ df[i][col] = df[j][col] /\ i < j

IsTop(top, n, col) ==
    /\ Len(top) = Min(n, out.count)
    /\ Range(top) \subseteq F
    /\ \A a, b \in 1..Len(top) : a < b => RanksBefore(col, top[a], top[b])
    /\ \A r \in F \ Range(top) : \A k \in 1..Len(top) : RanksBefore(col, top[k], r)
    /\ out.count <= n => Range(top) = F

\* C4: the top-20-by-revenue table and the top-10-by-vote_average table
\* have min(20, |filtered|) and min(10, |filtered|) rows; they hold the
\* rows of highest value in descending order, equal values in table order;
\* no row left out ranks before a row taken; and they are the whole
\* filtered frame when it has at most 20 (10) rows.
C4_TopTables ==
    Done => /\ IsTop(out.top_revenue, Top20, "revenue")
            /\ IsTop(out.top_rated, Top10, "vote_average")

\* more than 20 filtered rows, and the last row taken ties with one left out
C4_Witness ==
    /\ Done
    /\ out.count > Top20
    /\ \E r \in F \ Range(out.top_revenue) :
          df[r].revenue = df[out.top_revenue[Top20]].revenue
    /\ \E r \in F \ Range(out.top_rated) :
          df[r].vote_average = df[out.top_rated[Top10]].vote_average

----------------------------------------------------------------------------
(* Scalar metrics *)

\* C5: a run whose filter retains no row ends normally with count 0, a null
\* mean vote_average, revenue sum 0, a null mean runtime and empty top
\* tables; in every run the revenue sum is the sum of the non-null revenues
\* and each mean is the mean of the non-null values.
C5_Metrics ==
    Done =>
        /\ out.count = Cardinality(F)
        /\ out.total_revenue = ColumnSum(Valued(F, "revenue"), "revenue")
        /\ IsMeanOf(out.avg_rating, F, "vote_average")
        /\ IsMeanOf(out.avg_runtime, F, "runtime")
        /\ F = {} =>
              /\ out.count = 0
              /\ IsNaNMean(out.avg_rating)
              /\ out.total_revenue = 0
              /\ IsNaNMean(out.avg_runtime)
              /\ out.top_revenue = <<>>
              /\ out.top_rated = <<>>

\* the selected genre occurs in the table, yet no row matches the criteria
C5_Witness ==
    /\ Done
    /\ df # <<>>
    /\ criteria.genres # {}
    /\ out.count = 0
    /\ out.total_revenue = 0

----------------------------------------------------------------------------
(* Relaxing a filter *)

\* the criteria obtained from c by relaxing one filter
Relaxed(c) ==
    {[c EXCEPT !.year_lo = lo] : lo \in (year_min(df) - 1)..c.year_lo}
    \cup {[c EXCEPT !.year_hi = hi] : hi \in c.year_hi..(year_max(df) + 1)}
    \cup {[c EXCEPT !.min_votes = mv] : mv \in {m \in MinVotesChoices : m <= c.min_votes}}
    \cup {[c EXCEPT !.genres = {}]}

\* C6: the filtered frame holds rows of the base table only, and every row
\* it holds is also retained under the criteria with one filter relaxed
\* (year_lo lowered, year_hi raised, min_votes lowered, genre set emptied).
C6_Monotone ==
    Done =>
        /\ F \subseteq 1..Len(df)
        /\ \A c \in Relaxed(criteria) : F \subseteq Range(filtered_df(df, c))

\* rows are retained, and emptying the genre set retains more
C6_Witness ==
    /\ Done
    /\ F # {}
    /\ criteria.genres # {}
    /\ F # Range(filtered_df(df, [criteria EXCEPT !.genres = {}]))

----------------------------------------------------------------------------
(* Tables by year *)

FilteredYears == {df[i].year : i \in F}

RECURSIVE SumCounts(_)
SumCounts(s) == IF s = <<>> THEN 0 ELSE Head(s).count + SumCounts(Tail(s))

C10_MoviesPerYear ==
    Done =>
        LET s == out.movies_per_year
        IN  /\ {s[k].year : k \in 1..Len(s)} = FilteredYears
            /\ \A k \in 1..Len(s) - 1 : s[k].year < s[k + 1].year
            /\ \A k \in 1..Len(s) :
                  /\ s[k].count >= 1
                  /\ s[k].count = Cardinality({i \in F : df[i].year = s[k].year})
                  /\ criteria.year_lo <= s[k].year
                  /\ s[k].year <= criteria.year_hi
            /\ SumCounts(s) = out.count

\* a row without a year is in the table and is not counted under any year
C10_Witness ==
    /\ Done
    /\ \E i \in 1..Len(df) : df[i].year = NaN /\ VotesOK(i) /\ GenreOK(i)
    /\ Len(out.movies_per_year) = 1
    /\ out.count = 1

----------------------------------------------------------------------------
(* The memoized load *)

\* C7: once a load has succeeded, no later run fetches the CSV again, the
\* cache keeps the single table it holds, that table is the one every
\* later load_data() call returns, and it is the table made from the CSV.
C7_LoadOnce ==
    [][/\ cache # {} =>
            /\ cache' = cache
            /\ fetches' = fetches
            /\ hit'
            /\ df' \in cache
       /\ cache' # {} => cache' = {load_data(csv)}]_vars

\* a rerun with other criteria was answered by the cache
C7_Witness ==
    /\ Done
    /\ hit
    /\ fetches = 1
    /\ criteria.genres # {}
    /\ cache = {df}

\* C8: a run whose fetch fails ends in a load error having made exactly one
\* fetch attempt, stores nothing in the cache and computes no table and no
\* metric; the cache stays empty until a later run fetches again.
C8_FetchFailure ==
    [][status' = "load_error" =>
          /\ cache = {}
          /\ cache' = {}
          /\ fetches' = fetches + 1
          /\ df' = <<>>
          /\ out' = NoOutput
          /\ criteria' = NoCriteria]_vars

\* the run after a failed one fetched again and succeeded
C8_Witness ==
    /\ Done
    /\ ~hit
    /\ fetches = 2
    /\ out.count > 0

=============================================================================
